---- MODULE Spec2Model ----
(***************************************************************************)
(* TraceIDMiddleware.dispatch                                              *)
(* (src/backend/agentchat/middleware/trace_id_middleware.py).              *)
(*                                                                         *)
(* Every request is one run of dispatch in its own task.  dispatch contains *)
(* a single await, that of call_next(request); the code before it and the  *)
(* code after it run without suspension, so each is one step.  While       *)
(* dispatch is suspended the next stage runs in a task that starts from a  *)
(* copy of dispatch's context, and the steps of different requests         *)
(* interleave freely.  start_time and the time_cost field of the outcome   *)
(* line (lines 22, 46) are left out of the state: nothing below reads      *)
(* them.                                                                   *)
(***************************************************************************)
EXTENDS Integers, Sequences, FiniteSets, TLC

\* ---------------------------------------------------------------- bounds
NumRequests == 2
MaxDownstreamLogs == 1

Reqs == 1..NumRequests

\* ------------------------------------------------------- the input domain
\* The x-b3-traceid header of a request: absent, present and empty, or
\* present with a value.
NoHeader == "<absent>"
Requests == {[method |-> "GET", path |-> "/health", b3 |-> "abc-123"],
             [method |-> "POST", path |-> "/do", b3 |-> NoHeader],
             [method |-> "GET", path |-> "/do", b3 |-> ""]}
NoRequest == [method |-> "<none>", path |-> "<none>", b3 |-> NoHeader]

\* Python's hierarchy: Exception derives from BaseException; CancelledError
\* (task cancellation) derives from BaseException only.
ExceptionKinds == {"ValueError", "RuntimeError"}
Raised == {[kind |-> "ValueError", msg |-> "boom"],
           [kind |-> "RuntimeError", msg |-> "db password=hunter2"],
           [kind |-> "CancelledError", msg |-> ""]}
NoExc == [kind |-> "<none>", msg |-> ""]

\* Responses the next stage may produce.  Header names are lower case, as
\* the framework stores them.
Absent == "<unset>"
HeaderNames == {"content-type", "x-custom", "x-trace-id"}
TraceHeader == "x-trace-id"
NoResponse == [status_code |-> 0, body |-> "<none>",
               headers |-> [n \in HeaderNames |-> Absent]]
DownstreamResponses ==
    {[status_code |-> 200, body |-> "{ok:true}",
      headers |-> [n \in HeaderNames |->
                     IF n = "content-type" THEN "application/json" ELSE Absent]],
     [status_code |-> 500, body |-> "app error",
      headers |-> [n \in HeaderNames |->
                     CASE n = "content-type" -> "text/plain"
                       [] n = "x-custom" -> "v1"
                       [] OTHER -> "downstream-id"]]}

\* ------------------------------------------------------------------ state
VARIABLES
    pc,            \* where each request's dispatch stands
    request,       \* the request dispatch was called with
    uuids,         \* number of uuid4() calls made so far in the process
    generated,     \* the str(uuid4()) value evaluated on line 19 for the request
    trace_id,      \* dispatch's local trace_id
    traceCtx,      \* trace id context value of dispatch's task
    logExtra,      \* logger context (trace_id=...) of dispatch's task
    appTraceCtx,   \* trace id context value of the next stage's task
    appLogExtra,   \* logger context of the next stage's task
    calls,         \* per request, the requests call_next was invoked with
    produced,      \* the response the next stage produced
    raised,        \* the error call_next raised into dispatch
    response,      \* dispatch's local response
    outcome,       \* how dispatch ended: response returned or error escaped
    returned,      \* the response handed back to the framework
    log            \* the logger sink: per request, the lines emitted during
                   \* its handling, in order

vars == <<pc, request, uuids, generated, trace_id, traceCtx, logExtra,
          appTraceCtx, appLogExtra, calls, produced, raised, response,
          outcome, returned, log>>

NoTrace == "<no-trace>"

\* ---------------------------------------------------------------- helpers
\* str(uuid4()): a fresh, non-empty identifier, different on every call.
UuidNames == <<"uuid-1", "uuid-2", "uuid-3", "uuid-4", "uuid-5", "uuid-6">>
Uuid4Str(n) == UuidNames[n]

\* agentchat.utils.contexts.set_trace_id_context(value), called by the task
\* handling request r: the value is bound for that logical execution only.
set_trace_id_context(ctx, r, value) == [ctx EXCEPT ![r] = value]

\* request.headers.get("x-b3-traceid", default): the header's value when the
\* header is present (an empty value included), the default otherwise.
HeadersGetAlwaysDefault(req, default) == default
HeadersGet(req, default) == IF req.b3 = NoHeader THEN default ELSE req.b3

\* except Exception: the classes the handler catches.
CatchesOnlyValueError(exc) == exc.kind = "ValueError"
Catches(exc) == exc.kind \in ExceptionKinds

\* JSONResponse(status_code=500, content={"code": -1, "error_msg": ...})
ErrorStatus == 500
ErrorBody == "{code:-1,error_msg:10500}"
JSONResponseLeaking(exc) ==
    [status_code |-> ErrorStatus, body |-> exc.msg,
     headers |-> [n \in HeaderNames |->
                    IF n = "content-type" THEN "application/json" ELSE Absent]]
JSONResponse(exc) ==
    [status_code |-> ErrorStatus, body |-> ErrorBody,
     headers |-> [n \in HeaderNames |->
                    IF n = "content-type" THEN "application/json" ELSE Absent]]

\* response.headers["X-Trace-ID"] = value: replaces the header or adds it.
SetHeaderSkipping(resp, value) == resp
SetHeaderDroppingOthers(resp, value) ==
    [resp EXCEPT !.headers = [n \in HeaderNames |->
                                IF n = TraceHeader THEN value ELSE Absent]]
SetHeader(resp, value) == [resp EXCEPT !.headers[TraceHeader] = value]

\* The text of the outcome line: method, path, status code.
OutcomeTextFixedStatus(req, resp) ==
    [method |-> req.method, path |-> req.path, status_code |-> 200]
OutcomeText(req, resp) ==
    [method |-> req.method, path |-> req.path, status_code |-> resp.status_code]

\* A line of the sink.  by records which code emitted it; tag is the trace_id
\* the logger context attached to it; ctx is the trace id the emitting code
\* read from the request context.
NoText == [method |-> "", path |-> "", status_code |-> 0]
Line(by, level, tag, text, exc, ctx) ==
    [by |-> by, level |-> level, tag |-> tag, text |-> text, exc |-> exc,
     ctx |-> ctx]

\* The positions in the log of the lines emitted during request r's handling
\* by the given code at the given level.
Lines(r, by, level) ==
    {i \in 1..Len(log[r]) : log[r][i].by = by /\ log[r][i].level = level}

\* ------------------------------------------------------------------- Init
Init ==
    /\ pc = [r \in Reqs |-> "idle"]
    /\ request = [r \in Reqs |-> NoRequest]
    /\ uuids = 0
    /\ generated = [r \in Reqs |-> NoTrace]
    /\ trace_id = [r \in Reqs |-> NoTrace]
    /\ traceCtx = [r \in Reqs |-> NoTrace]
    /\ logExtra = [r \in Reqs |-> NoTrace]
    /\ appTraceCtx = [r \in Reqs |-> NoTrace]
    /\ appLogExtra = [r \in Reqs |-> NoTrace]
    /\ calls = [r \in Reqs |-> <<>>]
    /\ produced = [r \in Reqs |-> NoResponse]
    /\ raised = [r \in Reqs |-> NoExc]
    /\ response = [r \in Reqs |-> NoResponse]
    /\ outcome = [r \in Reqs |-> "pending"]
    /\ returned = [r \in Reqs |-> NoResponse]
    /\ log = [r \in Reqs |-> <<>>]

\* ---------------------------------------------------------------- actions
\* The framework calls dispatch(request, call_next) and lines 19-31 run up to
\* the await: trace_id is read from the header with str(uuid4()) as the
\* default (the default is evaluated whether or not the header is present),
\* the trace id is published to the request context and to the logger context,
\* and call_next(request) is invoked; the next stage starts with a copy of the
\* calling task's context, and dispatch suspends.  Requests are numbered in
\* the order in which they arrive.
DispatchScopingGenerated(r) ==
    /\ pc[r] = "idle"
    /\ \A q \in Reqs : q < r => pc[q] # "idle"
    /\ \E req \in Requests :
         LET tid == HeadersGet(req, Uuid4Str(uuids + 1)) IN
         /\ request' = [request EXCEPT ![r] = req]
         /\ uuids' = uuids + 1
         /\ generated' = [generated EXCEPT ![r] = Uuid4Str(uuids + 1)]
         /\ trace_id' = [trace_id EXCEPT ![r] = tid]
         /\ traceCtx' = set_trace_id_context(traceCtx, r, tid)
         /\ logExtra' = [logExtra EXCEPT ![r] = Uuid4Str(uuids + 1)]
         /\ calls' = [calls EXCEPT ![r] = Append(@, req)]
         /\ appTraceCtx' = [appTraceCtx EXCEPT ![r] = tid]
         /\ appLogExtra' = [appLogExtra EXCEPT ![r] = Uuid4Str(uuids + 1)]
    /\ pc' = [pc EXCEPT ![r] = "awaiting"]
    /\ UNCHANGED <<produced, raised, response, outcome, returned, log>>
Dispatch(r) ==
    /\ pc[r] = "idle"
    /\ \A q \in Reqs : q < r => pc[q] # "idle"
    /\ \E req \in Requests :
         LET tid == HeadersGet(req, Uuid4Str(uuids + 1)) IN
         /\ request' = [request EXCEPT ![r] = req]
         /\ uuids' = uuids + 1
         /\ generated' = [generated EXCEPT ![r] = Uuid4Str(uuids + 1)]
         /\ trace_id' = [trace_id EXCEPT ![r] = tid]
         /\ traceCtx' = set_trace_id_context(traceCtx, r, tid)
         /\ logExtra' = [logExtra EXCEPT ![r] = tid]
         /\ calls' = [calls EXCEPT ![r] = Append(@, req)]
         /\ appTraceCtx' = [appTraceCtx EXCEPT ![r] = tid]
         /\ appLogExtra' = [appLogExtra EXCEPT ![r] = tid]
    /\ pc' = [pc EXCEPT ![r] = "awaiting"]
    /\ UNCHANGED <<produced, raised, response, outcome, returned, log>>

\* Downstream code, while dispatch is suspended, reads the trace id from the
\* request context and logs a line.
AppLog(r) ==
    /\ pc[r] = "awaiting"
    /\ Cardinality(Lines(r, "app", "INFO")) < MaxDownstreamLogs
    /\ log' = [log EXCEPT ![r] = Append(@, Line("app", "INFO", appLogExtra[r],
                                                NoText, NoExc, appTraceCtx[r]))]
    /\ UNCHANGED <<pc, request, uuids, generated, trace_id, traceCtx, logExtra,
                   appTraceCtx, appLogExtra, calls, produced, raised, response,
                   outcome, returned>>

\* The next stage completes normally and dispatch resumes (lines 31, 42-47):
\* response is what the next stage produced, X-Trace-ID is set on it, the
\* outcome line is logged and the response is returned; the with block ends
\* and the logger context is restored.
Finish(r) ==
    /\ pc[r] = "awaiting"
    /\ \E prod \in DownstreamResponses :
         LET resp == SetHeader(prod, trace_id[r]) IN
         /\ produced' = [produced EXCEPT ![r] = prod]
         /\ response' = [response EXCEPT ![r] = resp]
         /\ log' = [log EXCEPT ![r] = Append(@, Line("dispatch", "INFO", logExtra[r],
                                                     OutcomeText(request[r], resp),
                                                     NoExc, NoTrace))]
         /\ returned' = [returned EXCEPT ![r] = resp]
    /\ outcome' = [outcome EXCEPT ![r] = "returned"]
    /\ logExtra' = [logExtra EXCEPT ![r] = NoTrace]
    /\ pc' = [pc EXCEPT ![r] = "done"]
    /\ UNCHANGED <<request, uuids, generated, trace_id, traceCtx, appTraceCtx,
                   appLogExtra, calls, raised>>

\* The next stage fails with an error that except Exception catches and
\* dispatch resumes (lines 31-47): the traceback is logged at error level, the
\* substitute response is built, X-Trace-ID is set on it, the outcome line is
\* logged and the response is returned.
ExceptRetrying(r) ==
    /\ pc[r] = "awaiting"
    /\ \E exc \in Raised :
         /\ Catches(exc)
         /\ raised' = [raised EXCEPT ![r] = exc]
         /\ LET resp == SetHeader(JSONResponse(exc), trace_id[r]) IN
              /\ response' = [response EXCEPT ![r] = resp]
              /\ log' = [log EXCEPT ![r] =
                           @ \o <<Line("dispatch", "ERROR", logExtra[r], NoText, exc, NoTrace),
                                  Line("dispatch", "INFO", logExtra[r],
                                       OutcomeText(request[r], resp), NoExc, NoTrace)>>]
              /\ returned' = [returned EXCEPT ![r] = resp]
    /\ calls' = [calls EXCEPT ![r] = Append(@, request[r])]
    /\ outcome' = [outcome EXCEPT ![r] = "returned"]
    /\ logExtra' = [logExtra EXCEPT ![r] = NoTrace]
    /\ pc' = [pc EXCEPT ![r] = "done"]
    /\ UNCHANGED <<request, uuids, generated, trace_id, traceCtx, appTraceCtx,
                   appLogExtra, produced>>
ExceptSilent(r) ==
    /\ pc[r] = "awaiting"
    /\ \E exc \in Raised :
         /\ Catches(exc)
         /\ raised' = [raised EXCEPT ![r] = exc]
         /\ LET resp == SetHeader(JSONResponse(exc), trace_id[r]) IN
              /\ response' = [response EXCEPT ![r] = resp]
              /\ log' = [log EXCEPT ![r] =
                           @ \o <<Line("dispatch", "INFO", logExtra[r],
                                       OutcomeText(request[r], resp), NoExc, NoTrace)>>]
              /\ returned' = [returned EXCEPT ![r] = resp]
    /\ outcome' = [outcome EXCEPT ![r] = "returned"]
    /\ logExtra' = [logExtra EXCEPT ![r] = NoTrace]
    /\ pc' = [pc EXCEPT ![r] = "done"]
    /\ UNCHANGED <<request, uuids, generated, trace_id, traceCtx, appTraceCtx,
                   appLogExtra, calls, produced>>
Except(r) ==
    /\ pc[r] = "awaiting"
    /\ \E exc \in Raised :
         /\ Catches(exc)
         /\ raised' = [raised EXCEPT ![r] = exc]
         /\ LET resp == SetHeader(JSONResponse(exc), trace_id[r]) IN
              /\ response' = [response EXCEPT ![r] = resp]
              /\ log' = [log EXCEPT ![r] =
                           @ \o <<Line("dispatch", "ERROR", logExtra[r], NoText, exc, NoTrace),
                                  Line("dispatch", "INFO", logExtra[r],
                                       OutcomeText(request[r], resp), NoExc, NoTrace)>>]
              /\ returned' = [returned EXCEPT ![r] = resp]
    /\ outcome' = [outcome EXCEPT ![r] = "returned"]
    /\ logExtra' = [logExtra EXCEPT ![r] = NoTrace]
    /\ pc' = [pc EXCEPT ![r] = "done"]
    /\ UNCHANGED <<request, uuids, generated, trace_id, traceCtx, appTraceCtx,
                   appLogExtra, calls, produced>>

\* The next stage fails with an error that except Exception does not catch:
\* the error leaves the with block (the logger context is restored) and
\* leaves dispatch; lines 33-47 do not run.
Propagate(r) ==
    /\ pc[r] = "awaiting"
    /\ \E exc \in Raised :
         /\ ~Catches(exc)
         /\ raised' = [raised EXCEPT ![r] = exc]
    /\ logExtra' = [logExtra EXCEPT ![r] = NoTrace]
    /\ outcome' = [outcome EXCEPT ![r] = "escaped"]
    /\ pc' = [pc EXCEPT ![r] = "done"]
    /\ UNCHANGED <<request, uuids, generated, trace_id, traceCtx, appTraceCtx,
                   appLogExtra, calls, produced, response, returned, log>>

Next ==
    \E r \in Reqs :
        \/ Dispatch(r)
        \/ AppLog(r)
        \/ Finish(r)
        \/ Except(r)
        \/ Propagate(r)

Spec == Init /\ [][Next]_vars

TypeOK ==
    /\ uuids \in 0..NumRequests
    /\ \A r \in Reqs : pc[r] \in {"idle", "awaiting", "done"}

\* ------------------------------------------------------- derived notions
Returned(r) == outcome[r] = "returned"
Escaped(r) == outcome[r] = "escaped"
NextStageFailed(r) == raised[r] # NoExc
NextStageSucceeded(r) == produced[r] # NoResponse /\ raised[r] = NoExc
HeaderMissingOrEmpty(r) == pc[r] # "idle" /\ request[r].b3 \in {NoHeader, ""}
HeaderNonEmpty(r) == pc[r] # "idle" /\ request[r].b3 \notin {NoHeader, ""}
ErrorLines(r) == Lines(r, "dispatch", "ERROR")
OutcomeLines(r) == Lines(r, "dispatch", "INFO")

\* ------------------------------------------------------------------ C1
\* C1 as stated: however the next stage fails (cancellation and other
\* non-Exception failures included), dispatch ends by returning a response;
\* no failure leaves dispatch.
C1_NoFailureEscapes ==
    \A r \in Reqs : pc[r] = "done" => Returned(r)

\* C1 amended: when the next stage completes normally or fails with an error
\* of class Exception, dispatch ends by returning a response; a failure
\* leaves dispatch only when it is not of class Exception.
C1_ExceptionFailuresAbsorbed ==
    \A r \in Reqs :
        /\ (pc[r] = "done" /\ (~NextStageFailed(r) \/ raised[r].kind \in ExceptionKinds))
              => Returned(r)
        /\ Escaped(r) => (NextStageFailed(r) /\ raised[r].kind \notin ExceptionKinds)

C1_Witness ==
    \E r \in Reqs : /\ NextStageFailed(r)
                    /\ raised[r].kind = "RuntimeError"
                    /\ Returned(r)

\* ------------------------------------------------------------------ C2
\* C2 as stated: a request without the x-b3-traceid header, or with an empty
\* one, gets a response whose X-Trace-ID is the generated identifier, never
\* the empty string, and two such requests get different identifiers.
C2_GeneratedWhenMissingOrEmpty ==
    \A r \in Reqs :
        (HeaderMissingOrEmpty(r) /\ Returned(r)) =>
            /\ returned[r].headers[TraceHeader] = generated[r]
            /\ returned[r].headers[TraceHeader] # ""
            /\ \A q \in Reqs \ {r} :
                  (HeaderMissingOrEmpty(q) /\ Returned(q)) =>
                      returned[q].headers[TraceHeader] # returned[r].headers[TraceHeader]

\* ------------------------------------------------------------------ C3
\* C3: for a request with a non-empty x-b3-traceid header, dispatch's trace_id
\* is the header value, and the returned response's X-Trace-ID equals it, both
\* when the next stage succeeded and when it failed.
C3_HeaderUsedVerbatim ==
    \A r \in Reqs :
        HeaderNonEmpty(r) =>
            /\ trace_id[r] = request[r].b3
            /\ Returned(r) => returned[r].headers[TraceHeader] = request[r].b3

C3_Witness ==
    \E r, q \in Reqs :
        /\ HeaderNonEmpty(r) /\ Returned(r) /\ NextStageSucceeded(r)
        /\ produced[r].headers[TraceHeader] = "downstream-id"
        /\ HeaderNonEmpty(q) /\ Returned(q) /\ NextStageFailed(q)

\* ------------------------------------------------------------------ C4
\* C4: every response dispatch returns, the downstream one or the substitute
\* 500 one, has an X-Trace-ID header equal to the trace id that was published
\* to the request context and to the logging scope of that request.
C4_HeaderEqualsPublishedTraceId ==
    \A r \in Reqs :
        Returned(r) =>
            /\ returned[r].headers[TraceHeader] # Absent
            /\ returned[r].headers[TraceHeader] = traceCtx[r]
            /\ returned[r].headers[TraceHeader] = appTraceCtx[r]
            /\ returned[r].headers[TraceHeader] = appLogExtra[r]
            /\ \A i \in 1..Len(log[r]) : log[r][i].tag = returned[r].headers[TraceHeader]

C4_Witness ==
    \E r, q \in Reqs :
        /\ Returned(r) /\ NextStageSucceeded(r)
        /\ Returned(q) /\ NextStageFailed(q)
        /\ returned[r].headers[TraceHeader] # returned[q].headers[TraceHeader]

C6_SuccessPassesThrough ==
    \A r \in Reqs :
        (Returned(r) /\ NextStageSucceeded(r)) =>
            /\ returned[r].status_code = produced[r].status_code
            /\ returned[r].body = produced[r].body
            /\ \A n \in HeaderNames \ {TraceHeader} :
                  returned[r].headers[n] = produced[r].headers[n]
            /\ returned[r].headers[TraceHeader] = trace_id[r]

C6_Witness ==
    \E r \in Reqs :
        /\ Returned(r) /\ NextStageSucceeded(r)
        /\ produced[r].headers["x-custom"] = "v1"
        /\ produced[r].headers[TraceHeader] # returned[r].headers[TraceHeader]

\* ------------------------------------------------------------------ C7
\* C7 as stated: on every path through dispatch exactly one info-level outcome
\* line is produced for the request.
C7_OneOutcomeLineOnEveryPath ==
    \A r \in Reqs : pc[r] = "done" => Cardinality(OutcomeLines(r)) = 1

\* C7 amended: on every path on which dispatch returns a response exactly one
\* info-level outcome line is produced for the request; it carries the
\* request's method and path and the status code of the returned response
\* (500 for the substitute response) and it is emitted before the response is
\* returned.  When a failure that is not of class Exception leaves dispatch,
\* no outcome line is produced.
C7_OneOutcomeLinePerResponse ==
    \A r \in Reqs :
        /\ Cardinality(OutcomeLines(r)) <= 1
        /\ Cardinality(OutcomeLines(r)) = 1 <=> Returned(r)
        /\ Escaped(r) => OutcomeLines(r) = {}
        /\ Returned(r) =>
              \A i \in OutcomeLines(r) :
                  /\ log[r][i].text.method = request[r].method
                  /\ log[r][i].text.path = request[r].path
                  /\ log[r][i].text.status_code = returned[r].status_code
                  /\ NextStageFailed(r) => log[r][i].text.status_code = 500

C7_Witness ==
    \E r, q \in Reqs :
        /\ Returned(r) /\ NextStageFailed(r) /\ Cardinality(OutcomeLines(r)) = 1
        /\ Returned(q) /\ NextStageSucceeded(q) /\ returned[q].status_code = 200
        /\ request[r].path # request[q].path

\* ------------------------------------------------------------------ C8
\* C8 as stated: on any downstream failure dispatch produces exactly one
\* error-level line; on normal completion it produces none.
C8_OneErrorLineOnAnyFailure ==
    \A r \in Reqs :
        pc[r] = "done" =>
            Cardinality(ErrorLines(r)) = (IF NextStageFailed(r) THEN 1 ELSE 0)

\* C8 amended: on a downstream failure with an error of class Exception,
\* dispatch produces exactly one error-level line, emitted before the
\* info-level outcome line of the same request; when the next stage completes
\* normally, or fails with an error that is not of class Exception, dispatch
\* produces no error-level line.
C8_OneErrorLinePerCaughtFailure ==
    \A r \in Reqs :
        /\ Cardinality(ErrorLines(r)) <= 1
        /\ pc[r] = "done" =>
              (Cardinality(ErrorLines(r)) = 1
                  <=> (NextStageFailed(r) /\ raised[r].kind \in ExceptionKinds))
        /\ \A i \in ErrorLines(r) : \A j \in OutcomeLines(r) : i < j
        /\ \A i \in ErrorLines(r) : log[r][i].exc = raised[r]

C8_Witness ==
    \E r, q \in Reqs :
        /\ Returned(r) /\ NextStageFailed(r)
        /\ Cardinality(ErrorLines(r)) = 1 /\ Cardinality(OutcomeLines(r)) = 1
        /\ Returned(q) /\ NextStageSucceeded(q) /\ ErrorLines(q) = {}

\* ------------------------------------------------------------------ C9
\* C9: under any interleaving of requests, every line emitted during a
\* request's handling, by dispatch or by downstream code, is tagged with that
\* request's trace id, and the trace id downstream code reads from the request
\* context is that request's trace id.
C9_LinesTaggedWithOwnTraceId ==
    \A r \in Reqs :
        \A i \in 1..Len(log[r]) :
            /\ log[r][i].tag = trace_id[r]
            /\ log[r][i].by = "app" => log[r][i].ctx = trace_id[r]

C9_Witness ==
    \E r, q \in Reqs :
        /\ trace_id[r] # trace_id[q]
        /\ pc[r] = "awaiting" /\ pc[q] = "awaiting"
        /\ Lines(r, "app", "INFO") # {} /\ Lines(q, "app", "INFO") # {}
        /\ request[r].b3 = "abc-123"

\* ------------------------------------------------------------------ C10
\* C10: dispatch invokes the next stage exactly once, with the request it was
\* given: never a second time after a failure, and never not at all.
C10_NextStageCalledOnce ==
    \A r \in Reqs :
        /\ Len(calls[r]) <= 1
        /\ pc[r] \in {"awaiting", "done"} => calls[r] = <<request[r]>>

C10_Witness ==
    \E r \in Reqs : pc[r] = "done" /\ NextStageFailed(r) /\ Returned(r)
                    /\ calls[r] = <<request[r]>>

====
